---------------------------- MODULE Spec2Model ----------------------------
(***************************************************************************)
(* Mesh normalization / quantization / reconstruction pipeline of          *)
(* scripts/mesh_preprocess.py, and the summary aggregation of              *)
(* scripts/aggregate_and_render.py.                                        *)
(*                                                                         *)
(* Arithmetic is exact.  A number is a record [a, b, d, r] that stands for *)
(* (a + b*sqrt(r)) / d with d > 0; the square root comes from the          *)
(* Euclidean norm of normalize_unit_sphere and is the only irrational the  *)
(* program produces.  d = 0 stands for numpy's NaN (0/0, mean of an empty  *)
(* array), which numpy returns with a warning and without raising.         *)
(***************************************************************************)
EXTENDS Integers, Sequences, FiniteSets, TLC

(***************************************************************************)
(* Bounds of the model.                                                    *)
(***************************************************************************)
QGrid == 7          \* quantizer inputs are the multiples of 1/QGrid
MaxBins == 4        \* largest --bins value explored
CoordMax == 1       \* vertex coordinates are integers in 0..CoordMax
MaxVerts == 2       \* longest vertex buffer of the normalizer runs
ECoordMax == 2      \* x coordinates of the error analyzer's original buffer
EMaxVerts == 2      \* longest buffer handed to the error analyzer
MaxMeshes == 2      \* most .obj files found under the input directory
MaxFaults == 1      \* most exceptions raised by the environment in one batch

Axes == 1..3        \* x, y, z: the columns of an (N, 3) array

(***************************************************************************)
(* Integer helpers.                                                        *)
(***************************************************************************)
Sgn(n) == IF n > 0 THEN 1 ELSE IF n < 0 THEN -1 ELSE 0

AbsI(n) == IF n < 0 THEN -n ELSE n

MinI(m, n) == IF m <= n THEN m ELSE n

MaxI(m, n) == IF m >= n THEN m ELSE n

RECURSIVE GCD(_, _)
GCD(m, n) == IF n = 0 THEN m ELSE GCD(n, m % n)

ISqrt(k) == CHOOSE s \in 0..k : s * s <= k /\ (s + 1) * (s + 1) > k

CSqrt(k) == IF ISqrt(k) * ISqrt(k) = k THEN ISqrt(k) ELSE ISqrt(k) + 1

(***************************************************************************)
(* Exact numbers (float64 values of the program, without rounding).        *)
(***************************************************************************)
NaN == [a |-> 0, b |-> 0, d |-> 0, r |-> 1]

IsFinite(x) == x.d # 0

\* canonical form: d > 0, gcd(a, b, d) = 1, r = 1 when there is no root part
Num(a, b, d, r) ==
    IF d = 0 THEN NaN
    ELSE LET s  == ISqrt(r)
             sq == s * s = r
             a1 == Sgn(d) * (IF sq THEN a + b * s ELSE a)
             b1 == Sgn(d) * (IF sq THEN 0 ELSE b)
             d1 == AbsI(d)
             g  == GCD(GCD(AbsI(a1), AbsI(b1)), d1)
         IN  [a |-> a1 \div g, b |-> b1 \div g, d |-> d1 \div g,
              r |-> IF b1 = 0 THEN 1 ELSE r]

Rat(n, d) == Num(n, 0, d, 1)

FromInt(n) == Rat(n, 1)

RootOf(x, y) == IF x.b # 0 THEN x.r ELSE y.r

Add(x, y) ==
    IF ~IsFinite(x) \/ ~IsFinite(y) THEN NaN
    ELSE LET g  == GCD(x.d, y.d)
             fx == y.d \div g
             fy == x.d \div g
         IN  Num(x.a * fx + y.a * fy, x.b * fx + y.b * fy, x.d * fx, RootOf(x, y))

Neg(x) == IF ~IsFinite(x) THEN NaN ELSE [x EXCEPT !.a = -x.a, !.b = -x.b]

Sub(x, y) == Add(x, Neg(y))

Mul(x, y) ==
    IF ~IsFinite(x) \/ ~IsFinite(y) THEN NaN
    ELSE LET r == RootOf(x, y)
         IN  Num(x.a * y.a + x.b * y.b * r, x.a * y.b + x.b * y.a, x.d * y.d, r)

\* sign of a + b*sqrt(r)
Sign(x) ==
    IF x.b = 0 THEN Sgn(x.a)
    ELSE IF x.a = 0 THEN Sgn(x.b)
    ELSE IF Sgn(x.a) = Sgn(x.b) THEN Sgn(x.a)
    ELSE Sgn(x.a) * Sgn(x.a * x.a - x.b * x.b * x.r)

IsZero(x) == IsFinite(x) /\ x.a = 0 /\ x.b = 0

\* x / y; 0/0 and anything non-finite give NaN as in IEEE arithmetic.  A non-zero
\* value is never divided by zero in this program (see dequantize, normalize_*).
Div(x, y) ==
    IF ~IsFinite(x) \/ ~IsFinite(y) \/ IsZero(y) THEN NaN
    ELSE LET r == RootOf(x, y)
             \* 1/y = y.d * (y.a - y.b*sqrt(r)) / (y.a^2 - y.b^2 * r)
             inv == Num(y.d * y.a, -(y.d * y.b), y.a * y.a - y.b * y.b * r, r)
         IN  Mul(x, inv)

Abs(x) == IF ~IsFinite(x) THEN NaN ELSE IF Sign(x) < 0 THEN Neg(x) ELSE x

Leq(x, y) == IsFinite(x) /\ IsFinite(y) /\ Sign(Sub(y, x)) >= 0

\* sqrt of a non-negative rational p/q = sqrt(p*q)/q
Sqrt(x) == Num(0, 1, x.d, x.a * x.d)

\* np.floor on a finite value
Floor(x) ==
    IF x.b >= 0 THEN (x.a + ISqrt(x.b * x.b * x.r)) \div x.d
    ELSE (x.a - CSqrt(x.b * x.b * x.r)) \div x.d

\* an array holds its values: the function is tabulated when it is built
Array(f) == f @@ <<>>

(***************************************************************************)
(* Quantizer.                                                              *)
(***************************************************************************)
\* np.clip(q, lo, hi) = minimum(hi, maximum(q, lo)), also when lo > hi
Clip(q, lo, hi) == MinI(hi, MaxI(q, lo))

\* one component of quantize: floor(x * (n - 1)), cast to int64, clipped.
\* The cast of a NaN is the minimum int64 on the supported platforms, which
\* the clip sends to the lower bound.
quantize1_noclip(x, bins) ==
    LET n == bins
    IN  IF ~IsFinite(x) THEN 0 ELSE Floor(Mul(x, FromInt(n - 1)))

quantize1(x, bins) ==
    LET n == bins
    IN  IF ~IsFinite(x) THEN Clip(0, 0, n - 1)
        ELSE Clip(Floor(Mul(x, FromInt(n - 1))), 0, n - 1)

quantize(normalized, bins) ==
    Array([i \in DOMAIN normalized |->
        Array([c \in DOMAIN normalized[i] |-> quantize1(normalized[i][c], bins)])])

\* one component of dequantize: float(q) / (n - 1); numpy does not raise on a
\* zero divisor, 0/0 is NaN
dequantize1_div_n(q, bins) ==
    LET n == bins
    IN  Div(FromInt(q), FromInt(n))

dequantize1(q, bins) ==
    LET n == bins
    IN  Div(FromInt(q), FromInt(n - 1))

dequantize(q, bins) ==
    Array([i \in DOMAIN q |-> Array([c \in DOMAIN q[i] |-> dequantize1(q[i][c], bins)])])

(***************************************************************************)
(* Arrays: an (N, 3) array is a sequence of N vertices <<x, y, z>>.        *)
(***************************************************************************)
RECURSIVE SumSeq(_)
SumSeq(xs) == IF xs = <<>> THEN FromInt(0) ELSE Add(xs[1], SumSeq(Tail(xs)))

Column(arr, c) == Array([i \in DOMAIN arr |-> arr[i][c]])

Range(xs) == {xs[i] : i \in DOMAIN xs}

\* arr.min(axis=0)[c] and arr.max(axis=0)[c] of a non-empty array
ColMin(arr, c) == CHOOSE m \in Range(Column(arr, c)) :
                      \A x \in Range(Column(arr, c)) : Leq(m, x)

ColMax(arr, c) == CHOOSE m \in Range(Column(arr, c)) :
                      \A x \in Range(Column(arr, c)) : Leq(x, m)

\* np.mean(xs): sum / count, NaN (with a warning) for an empty array
Mean(xs) == Div(SumSeq(xs), FromInt(Len(xs)))

Raised(err) == [kind |-> "raised", value |-> err]

Returned(value) == [kind |-> "returned", value |-> value]

NoResult == [kind |-> "none", value |-> <<>>]

NoCrash == [kind |-> "none", value |-> "none", at |-> 0]

(***************************************************************************)
(* mesh_stats: min/max of a zero-size array raise ValueError.  The std is  *)
(* only printed and is left out.                                           *)
(***************************************************************************)
mesh_stats(vertices) ==
    IF Len(vertices) = 0 THEN Raised("ValueError")
    ELSE Returned([n_vertices |-> Len(vertices),
                   min  |-> Array([c \in Axes |-> ColMin(vertices, c)]),
                   max  |-> Array([c \in Axes |-> ColMax(vertices, c)]),
                   mean |-> Array([c \in Axes |-> Mean(Column(vertices, c))])])

(***************************************************************************)
(* Min-max normalization.                                                  *)
(***************************************************************************)
\* denom = vmax - vmin; denom[denom == 0] = 1.0
minmax_denom_nofix(vmin, vmax) ==
    Array([c \in Axes |-> Sub(vmax[c], vmin[c])])

minmax_denom(vmin, vmax) ==
    Array([c \in Axes |-> IF IsZero(Sub(vmax[c], vmin[c])) THEN FromInt(1)
                    ELSE Sub(vmax[c], vmin[c])])

normalize_minmax(vertices) ==
    IF Len(vertices) = 0 THEN Raised("ValueError")
    ELSE LET vmin  == Array([c \in Axes |-> ColMin(vertices, c)])
             vmax  == Array([c \in Axes |-> ColMax(vertices, c)])
             denom == minmax_denom(vmin, vmax)
         IN  Returned([normalized |->
                          Array([i \in DOMAIN vertices |->
                              Array([c \in Axes |-> Div(Sub(vertices[i][c], vmin[c]), denom[c])])]),
                       meta |-> [vmin |-> vmin, vmax |-> vmax]])

denormalize_minmax(normalized, meta) ==
    Array([i \in DOMAIN normalized |->
        Array([c \in Axes |-> Add(Mul(normalized[i][c], Sub(meta.vmax[c], meta.vmin[c])),
                            meta.vmin[c])])])

(***************************************************************************)
(* Unit-sphere normalization.                                              *)
(***************************************************************************)
\* squared Euclidean norm of one row
Norm2(row) == SumSeq(Array([c \in Axes |-> Mul(row[c], row[c])]))

\* dists.max() with the fallback "if maxd == 0: maxd = 1.0".  The largest norm
\* is the root of the largest squared norm.
sphere_maxd(shifted) ==
    LET d2 == Array([i \in DOMAIN shifted |-> Norm2(shifted[i])])
        m2 == CHOOSE m \in Range(d2) : \A x \in Range(d2) : Leq(x, m)
    IN  IF IsZero(m2) THEN FromInt(1) ELSE Sqrt(m2)

\* (unit + 1.0) / 2.0
sphere_to01_noshift(unit) == unit

sphere_to01(unit) == Div(Add(unit, FromInt(1)), FromInt(2))

normalize_unit_sphere(vertices) ==
    IF Len(vertices) = 0 THEN Raised("ValueError")
    ELSE LET centroid == Array([c \in Axes |-> Mean(Column(vertices, c))])
             shifted  == Array([i \in DOMAIN vertices |->
                             Array([c \in Axes |-> Sub(vertices[i][c], centroid[c])])])
             maxd     == sphere_maxd(shifted)
         IN  Returned([normalized |->
                          Array([i \in DOMAIN vertices |->
                              Array([c \in Axes |-> sphere_to01(Div(shifted[i][c], maxd))])]),
                       meta |-> [centroid |-> centroid, maxd |-> maxd]])

denormalize_unit_sphere_nooffset(normalized, meta) ==
    Array([i \in DOMAIN normalized |->
        Array([c \in Axes |->
            LET unit == Mul(normalized[i][c], FromInt(2))
            IN  Add(Mul(unit, meta.maxd), meta.centroid[c])])])

denormalize_unit_sphere(normalized, meta) ==
    Array([i \in DOMAIN normalized |->
        Array([c \in Axes |->
            LET unit == Sub(Mul(normalized[i][c], FromInt(2)), FromInt(1))
            IN  Add(Mul(unit, meta.maxd), meta.centroid[c])])])

\* The array a function was handed, as it is after the call.  normalize_minmax
\* reads vertices at lines 43, 44 and 48 and assigns in place only into
\* denom (line 47), an array of its own; normalize_unit_sphere and
\* compute_errors build every array they assign to.
normalize_minmax_arg_shifted(vertices) ==
    IF Len(vertices) = 0 THEN vertices
    ELSE Array([i \in DOMAIN vertices |->
             Array([c \in Axes |-> Sub(vertices[i][c], ColMin(vertices, c))])])

normalize_minmax_arg(vertices) == vertices

normalize_unit_sphere_arg(vertices) == vertices

compute_errors_arg(original) == original

normalize_fn_arg(method, vertices) ==
    IF method = "minmax" THEN normalize_minmax_arg(vertices)
    ELSE normalize_unit_sphere_arg(vertices)

\* methods of process_mesh, in its order
Methods == <<"minmax", "unit_sphere">>

normalize_fn(method, vertices) ==
    IF method = "minmax" THEN normalize_minmax(vertices)
    ELSE normalize_unit_sphere(vertices)

denormalize_fn(method, normalized, meta) ==
    IF method = "minmax" THEN denormalize_minmax(normalized, meta)
    ELSE denormalize_unit_sphere(normalized, meta)

(***************************************************************************)
(* Error analyzer.  original - reconstructed follows numpy broadcasting on *)
(* the first dimension: equal lengths, or one of them 1; any other pair of *)
(* lengths raises ValueError.                                              *)
(***************************************************************************)
Broadcastable(n, m) == n = m \/ n = 1 \/ m = 1

BroadcastLen(n, m) == IF n = 1 THEN m ELSE n

compute_errors_noabs(original, reconstructed) ==
    LET n == Len(original)
        m == Len(reconstructed)
    IN  IF ~Broadcastable(n, m) THEN Raised("ValueError")
        ELSE LET k    == BroadcastLen(n, m)
                 lhs(i) == IF n = 1 THEN original[1] ELSE original[i]
                 rhs(i) == IF m = 1 THEN reconstructed[1] ELSE reconstructed[i]
                 diff == Array([i \in 1..k |-> Array([c \in Axes |-> Sub(lhs(i)[c], rhs(i)[c])])])
                 mse_per_axis ==
                     Array([c \in Axes |-> Mean(Array([i \in 1..k |-> Mul(diff[i][c], diff[i][c])]))])
                 mae_per_axis ==
                     Array([c \in Axes |-> Mean(Array([i \in 1..k |-> diff[i][c]]))])
             IN  Returned([mse_per_axis |-> mse_per_axis,
                           mae_per_axis |-> mae_per_axis,
                           mse |-> Mean(mse_per_axis),
                           mae |-> Mean(mae_per_axis)])

compute_errors(original, reconstructed) ==
    LET n == Len(original)
        m == Len(reconstructed)
    IN  IF ~Broadcastable(n, m) THEN Raised("ValueError")
        ELSE LET k    == BroadcastLen(n, m)
                 lhs(i) == IF n = 1 THEN original[1] ELSE original[i]
                 rhs(i) == IF m = 1 THEN reconstructed[1] ELSE reconstructed[i]
                 diff == Array([i \in 1..k |-> Array([c \in Axes |-> Sub(lhs(i)[c], rhs(i)[c])])])
                 mse_per_axis ==
                     Array([c \in Axes |-> Mean(Array([i \in 1..k |-> Mul(diff[i][c], diff[i][c])]))])
                 mae_per_axis ==
                     Array([c \in Axes |-> Mean(Array([i \in 1..k |-> Abs(diff[i][c])]))])
             IN  Returned([mse_per_axis |-> mse_per_axis,
                           mae_per_axis |-> mae_per_axis,
                           mse |-> Mean(mse_per_axis),
                           mae |-> Mean(mae_per_axis)])

(***************************************************************************)
(* State.                                                                  *)
(***************************************************************************)
VARIABLES
    qpc,        \* quantizer run: "start", "quantized", "dequantized"
    qbins,      \* its bins argument
    qin,        \* its input buffer
    quant,      \* the result of quantize
    deq,        \* the result of dequantize
    npc,        \* normalizer run: "start", "normalized", "raised", "denormalized"
    nmethod,    \* its strategy
    nverts,     \* its vertex buffer
    nout,       \* the result of normalize_fn
    nrecon,     \* the result of denormalize_fn on nout, nothing in between
    epc,        \* error analyzer run: "start", "done"
    eorig,      \* its original buffer
    erecon,     \* its reconstructed buffer
    eout,       \* the result of compute_errors
    obj_files,  \* main: the list find_obj_files returned
    args_bins,  \* main: args.bins
    pc,         \* main / process_mesh: the statement about to run
    idx,        \* main: position of p in obj_files
    mi,         \* process_mesh: position in methods
    locals,     \* process_mesh: what the try block computed so far
    fs,         \* the output directory: files of each <name>/<method>/
    started,    \* positions for which process_mesh was called
    attempted,  \* (position, method) pairs whose try block was entered
    reports,    \* error reports computed (the printed MSE / MAE lines)
    errlog,     \* (position, method) pairs the except handler printed
    crash,      \* the exception that left main, if any
    faults,     \* exceptions raised by the environment so far
    rows        \* aggregate_and_render: the row made of each summary.txt found

qvars == <<qpc, qbins, qin, quant, deq>>

nvars == <<npc, nmethod, nverts, nout, nrecon>>

evars == <<epc, eorig, erecon, eout>>

bvars == <<obj_files, args_bins, pc, idx, mi, locals, fs, started, attempted, reports,
           errlog, crash, faults, rows>>

vars == <<qvars, nvars, evars, bvars>>

\* a run that a specification does not exercise stays idle
IdleQ == qpc = "idle" /\ qbins = 0 /\ qin = <<>> /\ quant = NoResult /\ deq = NoResult

IdleN == npc = "idle" /\ nmethod = "none" /\ nverts = <<>> /\ nout = NoResult
         /\ nrecon = NoResult

IdleE == epc = "idle" /\ eorig = <<>> /\ erecon = <<>> /\ eout = NoResult

IdleB == /\ pc = "idle" /\ obj_files = <<>> /\ args_bins = 0 /\ idx = 0 /\ mi = 0
         /\ locals = <<>> /\ fs = <<>> /\ started = {} /\ attempted = {}
         /\ reports = {} /\ errlog = {} /\ crash = NoCrash /\ faults = 0
         /\ rows = <<>>

(***************************************************************************)
(* SpecQ: the quantizer alone, on one vertex <<x, 0.0, 1.0>>.              *)
(***************************************************************************)
GridValues == {Rat(k, QGrid) : k \in (-QGrid)..(2 * QGrid)}

BinsValues == (-1)..MaxBins

InitQ ==
    /\ qpc = "start"
    /\ qbins \in BinsValues
    /\ \E x \in GridValues : qin = << <<x, FromInt(0), FromInt(1)>> >>
    /\ quant = NoResult
    /\ deq = NoResult
    /\ IdleN /\ IdleE /\ IdleB

Quantize ==
    /\ qpc = "start"
    /\ quant' = Returned(quantize(qin, qbins))
    /\ qpc' = "quantized"
    /\ UNCHANGED <<qbins, qin, deq, nvars, evars, bvars>>

Dequantize ==
    /\ qpc = "quantized"
    /\ deq' = Returned(dequantize(quant.value, qbins))
    /\ qpc' = "dequantized"
    /\ UNCHANGED <<qbins, qin, quant, nvars, evars, bvars>>

NextQ == Quantize \/ Dequantize

SpecQ == InitQ /\ [][NextQ]_vars

In01(x) == Leq(FromInt(0), x) /\ Leq(x, FromInt(1))

\* C1: for bins < 2 both quantize and dequantize fail with an
\* InvalidConfiguration error instead of returning a buffer.
C1_BinsBelowTwoRejected ==
    /\ (qpc \in {"quantized", "dequantized"} /\ qbins < 2)
           => quant = Raised("InvalidConfiguration")
    /\ (qpc = "dequantized" /\ qbins < 2)
           => deq = Raised("InvalidConfiguration")

\* C4: for bins >= 2 and x in [0,1], dequantize(quantize(x)) is within
\* 1/(bins-1) of x.
C4_RoundTripWithinOneStep ==
    (qpc = "dequantized" /\ qbins >= 2) =>
        \A c \in Axes :
            In01(qin[1][c]) =>
                Leq(Abs(Sub(deq.value[1][c], qin[1][c])), Rat(1, qbins - 1))

C4_Witness ==
    /\ qpc = "dequantized" /\ qbins >= 3
    /\ In01(qin[1][1])
    /\ deq.value[1][1] # qin[1][1]
    /\ quant.value[1][1] \in 1..(qbins - 2)

\* C5: for bins >= 2 and any input value every quantized component is an
\* integer in [0, bins-1]; 1.0 maps to bins-1 and 0.0 maps to 0.
C5_QuantizedInRange ==
    (qpc \in {"quantized", "dequantized"} /\ qbins >= 2) =>
        \A c \in Axes :
            /\ quant.value[1][c] \in 0..(qbins - 1)
            /\ qin[1][c] = FromInt(1) => quant.value[1][c] = qbins - 1
            /\ qin[1][c] = FromInt(0) => quant.value[1][c] = 0

C5_Witness ==
    /\ qpc = "quantized" /\ qbins >= 2
    /\ ~In01(qin[1][1]) /\ Sign(qin[1][1]) > 0
    /\ quant.value[1] = <<qbins - 1, 0, qbins - 1>>

(***************************************************************************)
(* SpecN: a normalization strategy alone: normalize, then denormalize the  *)
(* normalized buffer with its metadata, no quantization in between.        *)
(***************************************************************************)
Coords == 0..CoordMax

Vertices == {<<FromInt(x), FromInt(y), FromInt(z)>> : x \in Coords, y \in Coords, z \in Coords}

Buffers(maxlen) == UNION {[1..n -> Vertices] : n \in 0..maxlen}

InitN ==
    /\ npc = "start"
    /\ nmethod \in Range(Methods)
    /\ nverts \in Buffers(MaxVerts)
    /\ nout = NoResult
    /\ nrecon = NoResult
    /\ IdleQ /\ IdleE /\ IdleB

Normalize ==
    /\ npc = "start"
    /\ nout' = normalize_fn(nmethod, nverts)
    /\ npc' = IF nout'.kind = "raised" THEN "raised" ELSE "normalized"
    /\ UNCHANGED <<nmethod, nverts, nrecon, qvars, evars, bvars>>

Denormalize ==
    /\ npc = "normalized"
    /\ nrecon' = Returned(denormalize_fn(nmethod, nout.value.normalized, nout.value.meta))
    /\ npc' = "denormalized"
    /\ UNCHANGED <<nmethod, nverts, nout, qvars, evars, bvars>>

NextN == Normalize \/ Denormalize

SpecN == InitN /\ [][NextN]_vars

\* an axis on which every vertex has the same value
DegenerateAxis(arr, c) == Len(arr) >= 1 /\ ColMin(arr, c) = ColMax(arr, c)

AllCoincide(arr) == Len(arr) >= 1 /\ \A c \in Axes : DegenerateAxis(arr, c)

NonDegenerate(arr) == Len(arr) >= 1 /\ \A c \in Axes : ~DegenerateAxis(arr, c)

\* C6: every component of the buffer returned by normalize_minmax and by
\* normalize_unit_sphere for a non-empty vertex buffer lies in [0,1].
C6_NormalizedInUnitRange ==
    (npc \in {"normalized", "denormalized"}) =>
        \A i \in DOMAIN nverts : \A c \in Axes : In01(nout.value.normalized[i][c])

C6_Witness ==
    /\ npc = "normalized" /\ nmethod = "unit_sphere"
    /\ Len(nverts) = 2 /\ DegenerateAxis(nverts, 3) /\ ~DegenerateAxis(nverts, 1)
    /\ nout.value.normalized[1][1].b # 0

\* C9: for each strategy and every non-degenerate vertex buffer v, denormalize
\* applied to what normalize returned gives back v, axis by axis.
C9_RoundTripWithoutQuantization ==
    (npc = "denormalized" /\ NonDegenerate(nverts)) => nrecon.value = nverts

C9_Witness ==
    /\ npc = "denormalized" /\ NonDegenerate(nverts)
    /\ nmethod = "unit_sphere"
    /\ nout.value.meta.maxd.b # 0
    /\ nrecon.value = nverts

V(x, y, z) == <<FromInt(x), FromInt(y), FromInt(z)>>

EOriginals ==
    LET vs == {<<FromInt(x), FromInt(y), FromInt(z)>> :
                  x \in 0..ECoordMax, y \in 0..1, z \in 0..1}
    IN  UNION {[1..n -> vs] : n \in 0..EMaxVerts}

EReconstructed ==
    LET vs == {<<FromInt(x), FromInt(0), FromInt(0)>> : x \in 0..1}
    IN  UNION {[1..n -> vs] : n \in 0..EMaxVerts}

InitE ==
    /\ epc = "start"
    /\ eorig \in EOriginals
    /\ erecon \in EReconstructed
    /\ eout = NoResult
    /\ IdleQ /\ IdleN /\ IdleB

ComputeErrors ==
    /\ epc = "start"
    /\ eout' = compute_errors(eorig, erecon)
    /\ epc' = "done"
    /\ UNCHANGED <<eorig, erecon, qvars, nvars, bvars>>

NextE == ComputeErrors

SpecE == InitE /\ [][NextE]_vars

\* C8: compute_errors fails whenever the two buffers differ in length, also
\* when one of them has exactly one vertex; it returns no report then.
C8_UnequalLengthsRejected ==
    (epc = "done" /\ Len(eorig) # Len(erecon)) => eout.kind = "raised"

\* the sum of term(1) .. term(n)
RECURSIVE Total(_, _)
Total(term, n) == IF n = 0 THEN FromInt(0) ELSE Add(Total(term, n - 1), term[n])

\* C11: for buffers of equal length N >= 1, N * mse_per_axis[a] is the sum of
\* the squared differences on axis a, N * mae_per_axis[a] the sum of their
\* absolute values, and 3 * mse and 3 * mae are the sums of the three per-axis
\* values; original [[0,0,0],[2,0,0]] against [[0,0,0],[0,0,0]] gives
\* mse_per_axis = [2,0,0], mae_per_axis = [1,0,0], mse = 2/3, mae = 1/3.
C11_ErrorsArePerAxisMeans ==
    (epc = "done" /\ Len(eorig) = Len(erecon) /\ Len(eorig) >= 1) =>
        LET N    == Len(eorig)
            d    == [a \in Axes |-> [i \in 1..N |-> Sub(eorig[i][a], erecon[i][a])]]
            sq   == [a \in Axes |-> [i \in 1..N |-> Mul(d[a][i], d[a][i])]]
            mag  == [a \in Axes |-> [i \in 1..N |->
                        IF Sign(d[a][i]) < 0 THEN Neg(d[a][i]) ELSE d[a][i]]]
            rep  == eout.value
        IN  /\ eout.kind = "returned"
            /\ \A a \in Axes :
                /\ Mul(FromInt(N), rep.mse_per_axis[a]) = Total(sq[a], N)
                /\ Mul(FromInt(N), rep.mae_per_axis[a]) = Total(mag[a], N)
            /\ Mul(FromInt(3), rep.mse) = Total(rep.mse_per_axis, 3)
            /\ Mul(FromInt(3), rep.mae) = Total(rep.mae_per_axis, 3)
            /\ (eorig = <<V(0, 0, 0), V(2, 0, 0)>> /\ erecon = <<V(0, 0, 0), V(0, 0, 0)>>) =>
                   /\ rep.mse_per_axis = <<FromInt(2), FromInt(0), FromInt(0)>>
                   /\ rep.mae_per_axis = <<FromInt(1), FromInt(0), FromInt(0)>>
                   /\ rep.mse = Rat(2, 3)
                   /\ rep.mae = Rat(1, 3)

C11_Witness ==
    /\ epc = "done"
    /\ eorig = <<V(0, 0, 0), V(2, 0, 0)>>
    /\ erecon = <<V(0, 0, 0), V(0, 0, 0)>>
    /\ eout.kind = "returned"
    /\ eout.value.mse = Rat(2, 3)

(***************************************************************************)
(* Spec: main in its default mode (no --sample, no --group_by_dir) calling *)
(* process_mesh for every file found.  Loading a file and writing an       *)
(* artifact are calls into the environment, which may raise.               *)
(***************************************************************************)
Bases == {"cube", "tri"}

ObjFile(dir, base, vertices) == [path |-> <<dir, base>>, vertices |-> vertices]

\* the .obj files an input directory may hold: a path <<directory, base name>>
\* and the vertices of the mesh in it; two share a base name, one is empty,
\* one has a degenerate axis
ObjFiles ==
    {ObjFile("a", "cube", <<V(0, 0, 0), V(1, 1, 0)>>),
     ObjFile("b", "cube", <<V(0, 1, 0), V(1, 0, 1)>>),
     ObjFile("a", "tri", <<>>),
     ObjFile("b", "tri", <<V(1, 1, 0), V(2, 0, 0)>>)}

\* glob.glob(pattern, recursive=True): every .obj file under the input
\* directory once, in any order
find_obj_files ==
    {fl \in UNION {[1..n -> ObjFiles] : n \in 0..MaxMeshes} :
        \A i, j \in DOMAIN fl : i # j => fl[i] # fl[j]}

\* name = os.path.splitext(os.path.basename(path))[0]
name(path) == path[2]

\* method_out = os.path.join(out_dir, name, method_name)
method_out(path, method) == <<name(path), method>>

\* mesh.is_empty: no vertex data
is_empty_never(mesh) == FALSE

is_empty(mesh) == Len(mesh.vertices) = 0

NoFile == [kind |-> "absent"]

File(run, data) == [kind |-> "file", run |-> run, data |-> data]

NoFiles == [quantized |-> NoFile, ply |-> NoFile, npz |-> NoFile, plots |-> NoFile,
            summary |-> NoFile]

\* the lines of summary.txt
summary_text(path, method, stats, b, errors, meta) ==
    [mesh |-> path, method |-> method, n_vertices |-> stats.n_vertices, bins |-> b,
     MSE |-> errors.mse, MAE |-> errors.mae, MSE_per_axis |-> errors.mse_per_axis,
     MAE_per_axis |-> errors.mae_per_axis, meta |-> meta]

\* the keys of those lines, in the order they are written
SummaryKeys == <<"mesh", "method", "n_vertices", "bins", "MSE", "MAE", "MSE_per_axis",
                 "MAE_per_axis", "meta">>

\* what summary.txt may hold when a write raises after open(summary_path, 'w')
\* created the file: the lines written so far, whole lines only
PartialWrites(text) ==
    {[k \in {SummaryKeys[i] : i \in 1..n} |-> text[k]] : n \in 0..(Len(SummaryKeys) - 1)}

BatchBins == {MaxBins}

\* the names process_mesh binds: stats before the loop over the methods, the
\* others inside the try block
EmptyLocals == [vertices |-> <<>>, stats |-> NoResult, meta |-> NoResult, quant |-> NoResult,
                recon |-> NoResult, errors |-> NoResult]

Init ==
    /\ obj_files \in find_obj_files
    /\ args_bins \in BatchBins
    /\ pc = "main"
    /\ idx = 0
    /\ mi = 0
    /\ locals = EmptyLocals
    /\ fs = [k \in Bases \X Range(Methods) |-> NoFiles]
    /\ started = {}
    /\ attempted = {}
    /\ reports = {}
    /\ errlog = {}
    /\ crash = NoCrash
    /\ faults = 0
    /\ rows = <<>>
    /\ IdleQ /\ IdleN /\ IdleE

\* for p in obj_files
p == obj_files[idx]

method_name == Methods[mi]

\* whether the environment raises in the call about to be made
MayRaise == {FALSE} \cup (IF faults < MaxFaults THEN {TRUE} ELSE {})

\* the for loop of main moves to the next file, or main returns
NextFile ==
    IF idx < Len(obj_files)
    THEN /\ idx' = idx + 1
         /\ pc' = "load"
         /\ started' = started \cup {idx + 1}
    ELSE /\ idx' = idx
         /\ pc' = "done"
         /\ started' = started

\* the for loop of process_mesh moves to the next method, or process_mesh returns
NextMethod ==
    IF mi < Len(Methods)
    THEN /\ mi' = mi + 1
         /\ pc' = "quantized"
         /\ attempted' = attempted \cup {<<idx, Methods[mi + 1]>>}
         /\ idx' = idx
         /\ started' = started
    ELSE /\ mi' = 0
         /\ attempted' = attempted
         /\ NextFile

\* the names of the try block are bound again before they are read in the
\* next iteration; all of them go when process_mesh returns
Rebind(vertices) ==
    IF mi < Len(Methods)
    THEN [EmptyLocals EXCEPT !.stats = locals.stats, !.vertices = vertices]
    ELSE EmptyLocals

\* except Exception as e: print, traceback, and on to the next method
Handler(vertices) ==
    /\ errlog' = errlog \cup {<<idx, method_name>>}
    /\ locals' = Rebind(vertices)
    /\ NextMethod

\* main, lines 298-305: an empty list returns at once
Main ==
    /\ pc = "main"
    /\ NextFile
    /\ UNCHANGED <<qvars, nvars, evars, obj_files, args_bins, rows, mi, locals, fs, attempted,
                   reports, errlog, crash, faults>>

\* process_mesh, lines 108-129: load, the empty check, the statistics; none of
\* them is inside a try, and main catches nothing
Load ==
    /\ pc = "load"
    /\ LET stats == mesh_stats(p.vertices)
       IN  \E raises \in MayRaise :
            /\ faults' = faults + (IF raises THEN 1 ELSE 0)
            /\ IF raises
               THEN /\ crash' = [kind |-> "raised", value |-> "load", at |-> idx]
                    /\ pc' = "crashed"
                    /\ UNCHANGED <<idx, mi, locals, started, attempted>>
               ELSE IF is_empty(p)
               THEN /\ crash' = crash
                    /\ NextFile
                    /\ UNCHANGED <<mi, locals, attempted>>
               ELSE IF stats.kind = "raised"
               THEN /\ crash' = [kind |-> "raised", value |-> stats.value, at |-> idx]
                    /\ pc' = "crashed"
                    /\ UNCHANGED <<idx, mi, locals, started, attempted>>
               ELSE /\ crash' = crash
                    /\ locals' = [EmptyLocals EXCEPT !.stats = stats.value,
                                                     !.vertices = p.vertices]
                    /\ NextMethod
    /\ UNCHANGED <<qvars, nvars, evars, obj_files, args_bins, rows, fs, reports, errlog>>

\* lines 133-138: normalize, quantize, makedirs, quantized.npz
SaveQuantized ==
    /\ pc = "quantized"
    /\ LET nrm == normalize_fn(method_name, locals.vertices)
           v   == normalize_fn_arg(method_name, locals.vertices)
           q   == quantize(nrm.value.normalized, args_bins)
           out == method_out(p.path, method_name)
       IN  \E raises \in MayRaise :
            /\ faults' = faults + (IF raises THEN 1 ELSE 0)
            /\ IF raises \/ nrm.kind = "raised"
               THEN /\ Handler(v)
                    /\ fs' = fs
               ELSE /\ locals' = [locals EXCEPT !.meta = nrm.value.meta, !.quant = q,
                                                !.vertices = v]
                    /\ fs' = [fs EXCEPT ![out].quantized = File(<<idx, method_name>>, q)]
                    /\ pc' = "ply"
                    /\ UNCHANGED <<idx, mi, started, attempted, errlog>>
    /\ UNCHANGED <<qvars, nvars, evars, obj_files, args_bins, rows, reports, crash>>

\* lines 141-157: dequantize, denormalize, compute_errors, the printed report,
\* the reconstructed mesh or point cloud
SaveReconstructed ==
    /\ pc = "ply"
    /\ LET d      == dequantize(locals.quant, args_bins)
           recon  == denormalize_fn(method_name, d, locals.meta)
           errors == compute_errors(locals.vertices, recon)
           v      == compute_errors_arg(locals.vertices)
           out    == method_out(p.path, method_name)
       IN  \E raises \in MayRaise :
            /\ faults' = faults + (IF raises THEN 1 ELSE 0)
            /\ IF errors.kind = "raised"
               THEN /\ Handler(v)
                    /\ UNCHANGED <<fs, reports>>
               ELSE /\ reports' = reports \cup
                                     {[run |-> <<idx, method_name>>, errors |-> errors.value]}
                    /\ IF raises
                       THEN /\ Handler(v)
                            /\ fs' = fs
                       ELSE /\ locals' = [locals EXCEPT !.recon = recon,
                                                        !.errors = errors.value,
                                                        !.vertices = v]
                            /\ fs' = [fs EXCEPT ![out].ply =
                                          File(<<idx, method_name>>, recon)]
                            /\ pc' = "npz"
                            /\ UNCHANGED <<idx, mi, started, attempted, errlog>>
    /\ UNCHANGED <<qvars, nvars, evars, obj_files, args_bins, rows, crash>>

\* line 160: reconstructed_vertices.npz
SaveReconstructedVertices ==
    /\ pc = "npz"
    /\ \E raises \in MayRaise :
        LET out == method_out(p.path, method_name)
        IN  /\ faults' = faults + (IF raises THEN 1 ELSE 0)
            /\ IF raises
               THEN /\ Handler(locals.vertices)
                    /\ fs' = fs
               ELSE /\ fs' = [fs EXCEPT ![out].npz =
                                  File(<<idx, method_name>>, locals.recon)]
                    /\ pc' = "plots"
                    /\ UNCHANGED <<idx, mi, locals, started, attempted, errlog>>
    /\ UNCHANGED <<qvars, nvars, evars, obj_files, args_bins, rows, reports, crash>>

\* lines 163-187: error_per_axis.png and error_hist.png
SavePlots ==
    /\ pc = "plots"
    /\ \E raises \in MayRaise :
        LET out == method_out(p.path, method_name)
        IN  /\ faults' = faults + (IF raises THEN 1 ELSE 0)
            /\ IF raises
               THEN /\ Handler(locals.vertices)
                    /\ fs' = fs
               ELSE /\ fs' = [fs EXCEPT ![out].plots =
                                  File(<<idx, method_name>>, "png")]
                    /\ pc' = "summary"
                    /\ UNCHANGED <<idx, mi, locals, started, attempted, errlog>>
    /\ UNCHANGED <<qvars, nvars, evars, obj_files, args_bins, rows, reports, crash>>

\* lines 190-200: summary.txt, the last statement of the try block; when it
\* raises, open() raised and there is no new file, or a write raised and the
\* file holds the lines written before
WriteSummary ==
    /\ pc = "summary"
    /\ \E raises \in MayRaise :
        LET out   == method_out(p.path, method_name)
            text  == summary_text(p.path, method_name, locals.stats, args_bins,
                                  locals.errors, locals.meta)
        IN  /\ faults' = faults + (IF raises THEN 1 ELSE 0)
            /\ IF raises
               THEN /\ Handler(locals.vertices)
                    /\ \/ fs' = fs
                       \/ \E written \in PartialWrites(text) :
                              fs' = [fs EXCEPT ![out].summary =
                                         File(<<idx, method_name>>, written)]
               ELSE /\ fs' = [fs EXCEPT ![out].summary =
                                  File(<<idx, method_name>>, text)]
                    /\ locals' = Rebind(locals.vertices)
                    /\ errlog' = errlog
                    /\ NextMethod
    /\ UNCHANGED <<qvars, nvars, evars, obj_files, args_bins, rows, reports, crash>>

(***************************************************************************)
(* aggregate_and_render.py, run on the output directory once the batch is  *)
(* over, however it ended.                                                 *)
(***************************************************************************)
\* data.get(key, default) on what parse_summary returned.  The values are the
\* ones written; their formatting to 12 digits is not modelled.
Get(data, key, default) == IF key \in DOMAIN data THEN data[key] ELSE default

\* a cell of the row: the value parsed, or the default standing in for it
Cell(data, key, default) ==
    [parsed |-> key \in DOMAIN data, value |-> Get(data, key, default)]

AxisOf(data, key, c) ==
    [parsed |-> key \in DOMAIN data,
     value |-> IF key \in DOMAIN data THEN data[key][c] ELSE "None"]

\* glob(summary_dir/*reconstructed.*), else the same in the parent directory,
\* which holds only the method directories: <name>_reconstructed.ply if there
Candidates(k) == IF fs[k].ply.kind = "file" THEN {fs[k].ply.run} ELSE {}

\* the row of outputs_dir/<mesh>/<method>/summary.txt, lines 136-166; cand is
\* what lines 233-237 find next to it
RowOf(k) ==
    LET data == fs[k].summary.data
    IN  [group |-> k[1], mesh |-> k[1],
         method |-> Get(data, "method", k[2]),
         n_vertices |-> Cell(data, "n_vertices", ""),
         mse |-> Cell(data, "MSE", ""),
         mae |-> Cell(data, "MAE", ""),
         mse_x |-> AxisOf(data, "MSE_per_axis", 1),
         mse_y |-> AxisOf(data, "MSE_per_axis", 2),
         mse_z |-> AxisOf(data, "MSE_per_axis", 3),
         mae_x |-> AxisOf(data, "MAE_per_axis", 1),
         mae_y |-> AxisOf(data, "MAE_per_axis", 2),
         mae_z |-> AxisOf(data, "MAE_per_axis", 3),
         cand |-> Candidates(k)]

\* main of aggregate_and_render.py: one row for every summary.txt under
\* outputs_dir
Aggregate ==
    /\ pc \in {"done", "crashed"}
    /\ rows' = [k \in {x \in DOMAIN fs : fs[x].summary.kind = "file"} |-> RowOf(k)]
    /\ pc' = "aggregated"
    /\ UNCHANGED <<qvars, nvars, evars, obj_files, args_bins, idx, mi, locals, fs, started,
                   attempted, reports, errlog, crash, faults>>

Next ==
    \/ Main
    \/ Load
    \/ SaveQuantized
    \/ SaveReconstructed
    \/ SaveReconstructedVertices
    \/ SavePlots
    \/ WriteSummary
    \/ Aggregate

Spec == Init /\ [][Next]_vars

Terminal == pc \in {"done", "crashed"}

\* process_mesh has returned, or was left by an exception, for position j
Processed(j) == j \in started /\ (j < idx \/ pc # "load")

RunsOf(j) == {<<j, Methods[k]>> : k \in DOMAIN Methods}

\* C2: a failure in one (mesh, strategy) run, at any step including the load
\* and the statistics, prevents no sibling run: when the batch ends
\* process_mesh was called for every file, and both strategies were attempted
\* for every file that loads with vertices.
C2_SiblingRunsAttempted ==
    Terminal =>
        \A j \in DOMAIN obj_files :
            /\ j \in started
            /\ (crash.at # j /\ ~is_empty(obj_files[j])) => RunsOf(j) \subseteq attempted

\* C3: what is recorded for a (mesh, strategy) pair when the batch completes
\* depends on that mesh and that run alone, neither on the order of the files
\* nor on the other files, two files of the same base name in different
\* directories included: for every run that went through, the summary found
\* in its output directory names its own mesh and carries the errors that
\* run computed.
C3_RecordedResultIsOwn ==
    pc = "done" =>
        \A j \in DOMAIN obj_files : \A k \in DOMAIN Methods :
            LET m == Methods[k]
                f == fs[method_out(obj_files[j].path, m)].summary
            IN  (~is_empty(obj_files[j]) /\ <<j, m>> \notin errlog) =>
                    /\ f.kind = "file"
                    /\ DOMAIN f.data = Range(SummaryKeys)
                    /\ f.data.mesh = obj_files[j].path
                    /\ f.data.n_vertices = Len(obj_files[j].vertices)
                    /\ \E rep \in reports :
                           /\ rep.run = <<j, m>>
                           /\ f.data.MSE = rep.errors.mse
                           /\ f.data.MAE = rep.errors.mae

InTryBlock == pc \in {"quantized", "ply", "npz", "plots", "summary"}

\* C13: no operation of the pipeline changes the vertex buffer it is handed:
\* at every statement of the loop over the strategies, under the first
\* strategy and under the second, the vertices array of process_mesh holds
\* the values that were loaded, degenerate axes included.
C13_VerticesNeverMutated ==
    InTryBlock => locals.vertices = p.vertices

C13_Witness ==
    /\ pc = "quantized" /\ method_name = "unit_sphere"
    /\ <<idx, "minmax">> \notin errlog
    /\ DegenerateAxis(p.vertices, 3)
    /\ ColMin(p.vertices, 1) # FromInt(0)
    /\ locals.vertices = p.vertices

RowCells == {"n_vertices", "mse", "mae", "mse_x", "mse_y", "mse_z", "mae_x", "mae_y",
             "mae_z"}

\* C12: a run that failed is in the error log with its mesh and strategy, and
\* contributes no row: the aggregator has a row for a (mesh, strategy) pair
\* only if that pair's run went through, and no row carries a placeholder.
C12_FailedRunsHaveNoRow ==
    pc = "aggregated" =>
        /\ \A run \in errlog :
               method_out(obj_files[run[1]].path, run[2]) \notin DOMAIN rows
        /\ \A k \in DOMAIN rows :
               \A c \in RowCells : rows[k][c].parsed

\* C14: the artifacts of a run are written in the order quantized.npz,
\* reconstructed geometry, reconstructed_vertices.npz, plots, summary.txt, so
\* after a batch started on an empty output directory every summary.txt sits
\* next to a quantized.npz and reconstructed files written by the run that
\* wrote it, and those are what the aggregator finds next to it.
C14_SummaryNextToOwnArtifacts ==
    /\ Terminal =>
           \A k \in DOMAIN fs :
               fs[k].summary.kind = "file" =>
                   \A part \in {"quantized", "ply", "npz"} :
                       /\ fs[k][part].kind = "file"
                       /\ fs[k][part].run = fs[k].summary.run
    /\ pc = "aggregated" =>
           \A k \in DOMAIN rows : rows[k].cand = {fs[k].summary.run}

=============================================================================
